---- MODULE Spec2Model ----
(***************************************************************************)
(* Model of pkg/console/subresource/route/route.go of the console          *)
(* operator: the route reconcile operations (ApplyRoute, GetOrCreate), the *)
(* route builders (DefaultRoute, CustomRoute) and the status readers       *)
(* (GetCanonicalHost, IsAdmitted).                                         *)
(*                                                                         *)
(* Go pointers are modelled as sequences of length 0 (nil) or 1.  Go maps  *)
(* are TLA+ functions whose DOMAIN is the set of keys present.             *)
(***************************************************************************)
EXTENDS Naturals, Sequences, FiniteSets, TLC

VARIABLES
    store,      \* the route store: a function from the names present to route objects
    last,       \* record of the last operation run against the store (history)
    ingress,    \* route.Status.Ingress handed to the status readers
    status,     \* what the status readers returned for `ingress`
    cr,         \* the parent configuration (*operatorv1.Console), nil or one object
    tlsConfig,  \* the custom TLS certificate (*CustomTLSCert), nil or one object
    built       \* the route last produced by a builder, nil before the first call

vars == <<store, last, ingress, status, cr, tlsConfig, built>>

---------------------------------------------------------------------------
(* Bounds of the model *)

\* longest ingress status list handed to the status readers
MaxIngress == 2
\* number of label values other than the operator's own "console"
NumOtherValues == 1

---------------------------------------------------------------------------
(* Pointers *)

Nil == <<>>
Ptr(x) == <<x>>
IsNil(p) == Len(p) = 0
Deref(p) == p[1]

\* a Go map with no keys
EmptyMap == [k \in {} |-> ""]

---------------------------------------------------------------------------
(* Names the source takes from package api *)

OpenShiftConsoleName == "console"
OpenShiftConsoleNamespace == "openshift-console"
OpenShiftConsoleServiceName == "console"
OpenshiftConsoleRedirectServiceName == "console-redirect"
OpenshiftConsoleCustomRouteName == "console-custom"
ConsoleContainerPortName == "https"
RedirectContainerPortName == "custom-route-redirect"

\* route.go: const defaultIngressController
defaultIngressController == "default"

---------------------------------------------------------------------------
(* Spec builders *)

\* A []RouteTargetReference: Go tells a nil slice from an empty one.
NilSlice == [isNil |-> TRUE, items |-> <<>>]
EmptySlice == [isNil |-> FALSE, items |-> <<>>]

toService(serviceName) ==
    [kind |-> "Service", name |-> serviceName, weight |-> 100]

port(p) == [targetPort |-> p]

tls(cert, terminationType) ==
    [termination |-> terminationType,
     insecureEdgeTerminationPolicy |-> "Redirect",
     certificate |-> IF IsNil(cert) THEN "" ELSE Deref(cert).Certificate,
     key |-> IF IsNil(cert) THEN "" ELSE Deref(cert).Key]

wildcard == "None"

\* IsCustomRouteSet reading the secret reference instead of the hostname
IsCustomRouteSet_secret(operatorConfig) ==
    IF IsNil(operatorConfig) THEN FALSE
    ELSE Deref(operatorConfig).secretName # ""

IsCustomRouteSet(operatorConfig) ==
    IF IsNil(operatorConfig) THEN FALSE
    ELSE Deref(operatorConfig).hostname # ""

IsCustomRouteSecretSet(operatorConfig) ==
    IF IsNil(operatorConfig) THEN FALSE
    ELSE Deref(operatorConfig).secretName # ""

\* util.SharedMeta(): the operator's name, namespace and labels
SharedMeta ==
    [name |-> OpenShiftConsoleName,
     namespace |-> OpenShiftConsoleNamespace,
     labels |-> [k \in {"app"} |-> OpenShiftConsoleName],
     annotations |-> EmptyMap,
     ownerReferences |-> <<>>]

\* util.OwnerRefFrom(cr): nil for a nil config
OwnerRefFrom(config) ==
    IF IsNil(config) THEN Nil
    ELSE Ptr([kind |-> "Console", name |-> Deref(config).name,
              uid |-> Deref(config).uid, controller |-> TRUE])

\* util.AddOwnerRef(route, ref): appends a non-nil reference
AddOwnerRef(route, ref) ==
    IF IsNil(ref) THEN route
    ELSE [route EXCEPT !.ownerReferences = Append(@, Deref(ref))]

RouteSpec(host, to, p, t) ==
    [host |-> host, to |-> to, port |-> p, tls |-> t,
     wildcardPolicy |-> wildcard, alternateBackends |-> NilSlice]

WithSpec(meta, spec) ==
    [name |-> meta.name, namespace |-> meta.namespace, labels |-> meta.labels,
     annotations |-> meta.annotations, ownerReferences |-> meta.ownerReferences,
     spec |-> spec]

DefaultStub == SharedMeta

DefaultRoute(config) ==
    LET custom == IsCustomRouteSet(config)
        usePort == IF custom THEN RedirectContainerPortName
                   ELSE ConsoleContainerPortName
        tlsTermination == IF custom THEN "edge" ELSE "reencrypt"
        serviceName == IF custom THEN OpenshiftConsoleRedirectServiceName
                       ELSE OpenShiftConsoleServiceName
        route == WithSpec(DefaultStub,
                          RouteSpec("", toService(serviceName), port(usePort),
                                    tls(Nil, tlsTermination)))
    IN  AddOwnerRef(route, OwnerRefFrom(config))

\* CustomRoute dereferences cr (cr.Spec.Route.Hostname): callers pass a non-nil cr
CustomRoute(config, cert) ==
    LET stub == [DefaultStub EXCEPT !.name = OpenshiftConsoleCustomRouteName]
        route == WithSpec(stub,
                          RouteSpec(Deref(config).hostname,
                                    toService(OpenShiftConsoleServiceName),
                                    port(ConsoleContainerPortName),
                                    tls(cert, "reencrypt")))
    IN  AddOwnerRef(route, OwnerRefFrom(config))

---------------------------------------------------------------------------
(* Metadata helpers of package resourcemerge, as ApplyRoute calls them *)

\* the label and annotation keys of the model, without removal markers
BaseKeys == {"app", "note"}

\* strings.HasSuffix(k, "-"): k is a removal marker, "<key>-"
HasSuffixDash(k) == \E b \in BaseKeys : k = b \o "-"

\* strings.TrimRight(k, "-")
TrimRightDash(k) == CHOOSE b \in BaseKeys : k = b \o "-"

Restrict(m, keys) == [k \in keys |-> m[k]]

Put(m, key, v) == [k \in DOMAIN m \cup {key} |-> IF k = key THEN v ELSE m[k]]

\* cleanRemovalKeys: drops every key that ends in "-"
cleanRemovalKeys(m) == Restrict(m, {k \in DOMAIN m : ~HasSuffixDash(k)})

\* resourcemerge.WithCleanLabelsAndAnnotations(obj)
WithCleanLabelsAndAnnotations(obj) ==
    [obj EXCEPT !.labels = cleanRemovalKeys(@),
                !.annotations = cleanRemovalKeys(@)]

\* one iteration of MergeMap's loop, for key k of required
MergeMapStep(acc, required, k) ==
    IF HasSuffixDash(k)
    THEN IF TrimRightDash(k) \notin DOMAIN acc.map
         THEN acc
         ELSE [map |-> Restrict(acc.map, DOMAIN acc.map \ {TrimRightDash(k)}),
               modified |-> TRUE]
    ELSE IF k \notin DOMAIN acc.map \/ acc.map[k] # required[k]
         THEN [map |-> Put(acc.map, k, required[k]), modified |-> TRUE]
         ELSE acc

\* resourcemerge.MergeMap(modified, existing, required); `order` is the order
\* in which Go's range visits the keys of required (unspecified by the language)
RECURSIVE MergeMap(_, _, _)
MergeMap(acc, required, order) ==
    IF order = <<>> THEN acc
    ELSE MergeMap(MergeMapStep(acc, required, Head(order)), required, Tail(order))

\* the orders in which a range over map m may visit its keys
RangeOrders(m) ==
    {o \in [1..Cardinality(DOMAIN m) -> DOMAIN m] :
        \A i, j \in DOMAIN o : o[i] = o[j] => i = j}

\* ownerRefMatched: same kind and name
ownerRefMatched(a, b) == a.kind = b.kind /\ a.name = b.name

\* one iteration of MergeOwnerRefs' loop, for required reference o
MergeOwnerRefsStep(acc, o) ==
    LET hits == {i \in DOMAIN acc.refs : ownerRefMatched(o, acc.refs[i])}
    IN  IF hits = {}
        THEN [refs |-> Append(acc.refs, o), modified |-> TRUE]
        ELSE LET i == CHOOSE x \in hits : \A y \in hits : x <= y
             IN  IF acc.refs[i] # o
                 THEN [refs |-> [acc.refs EXCEPT ![i] = o], modified |-> TRUE]
                 ELSE acc

RECURSIVE MergeOwnerRefs(_, _)
MergeOwnerRefs(acc, required) ==
    IF required = <<>> THEN acc
    ELSE MergeOwnerRefs(MergeOwnerRefsStep(acc, Head(required)), Tail(required))

\* resourcemerge.SetStringIfSet
SetStringIfSet(acc, required) ==
    IF required # "" /\ required # acc.str
    THEN [str |-> required, modified |-> TRUE]
    ELSE acc

\* resourcemerge.EnsureObjectMeta(modified, &existing.ObjectMeta, required.ObjectMeta)
\* with *modified = false on entry; returns the merged object and *modified
EnsureObjectMeta(existing, required, labelOrder, annotationOrder) ==
    LET ns == SetStringIfSet([str |-> existing.namespace, modified |-> FALSE],
                             required.namespace)
        nm == SetStringIfSet([str |-> existing.name, modified |-> ns.modified],
                             required.name)
        lb == MergeMap([map |-> existing.labels, modified |-> nm.modified],
                       required.labels, labelOrder)
        an == MergeMap([map |-> existing.annotations, modified |-> lb.modified],
                       required.annotations, annotationOrder)
        ow == MergeOwnerRefs([refs |-> existing.ownerReferences,
                              modified |-> an.modified],
                             required.ownerReferences)
    IN  [obj |-> [existing EXCEPT !.namespace = ns.str, !.name = nm.str,
                                  !.labels = lb.map, !.annotations = an.map,
                                  !.ownerReferences = ow.refs],
         modified |-> ow.modified]

\* equality.Semantic.DeepEqual on two []RouteTargetReference: a nil and an
\* empty slice are equal
SemanticSliceEqual(a, b) == a.items = b.items

\* equality.Semantic.DeepEqual(existingCopy.Spec, required.Spec)
SemanticDeepEqual(a, b) ==
    /\ a.host = b.host
    /\ a.to = b.to
    /\ a.port = b.port
    /\ a.tls = b.tls
    /\ a.wildcardPolicy = b.wildcardPolicy
    /\ SemanticSliceEqual(a.alternateBackends, b.alternateBackends)

---------------------------------------------------------------------------
(* The route store behind routeclient.RoutesGetter *)

\* errors other than NotFound that the store may answer a read or a write with
GetFault == "Forbidden"
WriteFault == "Conflict"

\* the API server rejects label and annotation keys that end in "-"
ValidObject(obj) ==
    \A k \in DOMAIN obj.labels \cup DOMAIN obj.annotations : ~HasSuffixDash(k)

\* client.Routes(ns).Get(name): the answer [obj, err]
Get(st, name, fails) ==
    IF fails THEN [obj |-> Nil, err |-> GetFault]
    ELSE IF name \notin DOMAIN st THEN [obj |-> Nil, err |-> "NotFound"]
    ELSE [obj |-> Ptr(st[name]), err |-> "nil"]

\* client.Routes(ns).Create(obj): the answer [store, obj, err]
Create(st, obj, fails) ==
    IF fails THEN [store |-> st, obj |-> Nil, err |-> WriteFault]
    ELSE IF obj.name \in DOMAIN st
    THEN [store |-> st, obj |-> Nil, err |-> "AlreadyExists"]
    ELSE IF ~ValidObject(obj) THEN [store |-> st, obj |-> Nil, err |-> "Invalid"]
    ELSE [store |-> Put(st, obj.name, obj), obj |-> Ptr(obj), err |-> "nil"]

\* client.Routes(ns).Update(obj): the answer [store, obj, err]
Update(st, obj, fails) ==
    IF fails THEN [store |-> st, obj |-> Nil, err |-> WriteFault]
    ELSE IF obj.name \notin DOMAIN st
    THEN [store |-> st, obj |-> Nil, err |-> "NotFound"]
    ELSE IF ~ValidObject(obj) THEN [store |-> st, obj |-> Nil, err |-> "Invalid"]
    ELSE [store |-> Put(st, obj.name, obj), obj |-> Ptr(obj), err |-> "nil"]

\* one call issued against the store: its verb, key, argument and the error answered
Call(verb, name, obj, err) ==
    [verb |-> verb, name |-> name, obj |-> obj, err |-> err]

---------------------------------------------------------------------------
(* Reconcile operations *)

\* apierrors.IsNotFound(err), lines 38 and 68
IsNotFound(err) == err = "NotFound"

\* specSame by reflect.DeepEqual, which tells a nil slice from an empty one
specSame_literal(existingCopy, required) == existingCopy.spec = required.spec

\* line 50: specSame
specSame(existingCopy, required) ==
    SemanticDeepEqual(existingCopy.spec, required.spec)

\* the update keeping the live spec
ReplaceSpec_keep(existingCopy, required) == existingCopy

\* the update sending the required object in place of the merged copy
ReplaceSpec_whole(existingCopy, required) == required

\* line 57: existingCopy.Spec = required.Spec
ReplaceSpec(existingCopy, required) ==
    [existingCopy EXCEPT !.spec = required.spec]

\* Create with the required object as given, removal markers included
CreateArgument_unclean(required) == required

\* line 40: the object ApplyRoute hands to Create
CreateArgument(required) == WithCleanLabelsAndAnnotations(required)

\* GetOrCreate cleaning the object as ApplyRoute does
GetOrCreateArgument_cleaned(required) == WithCleanLabelsAndAnnotations(required)

\* line 70: the object GetOrCreate hands to Create
GetOrCreateArgument(required) == required

\* the Update tried a second time when it fails
IssueUpdate_retry(st, obj, fails) ==
    LET res == Update(st, obj, fails)
        one == Call("Update", obj.name, Ptr(obj), res.err)
    IN  [store |-> res.store, obj |-> res.obj, err |-> res.err,
         calls |-> IF res.err # "nil" THEN <<one, one>> ELSE <<one>>]

\* line 58: the Update against the store, with the calls it issues
IssueUpdate(st, obj, fails) ==
    LET res == Update(st, obj, fails)
    IN  [store |-> res.store, obj |-> res.obj, err |-> res.err,
         calls |-> <<Call("Update", obj.name, Ptr(obj), res.err)>>]

\* lines 40 and 70: the Create against the store, with the calls it issues
IssueCreate(st, obj, fails) ==
    LET res == Create(st, obj, fails)
    IN  [store |-> res.store, obj |-> res.obj, err |-> res.err,
         calls |-> <<Call("Create", obj.name, Ptr(obj), res.err)>>]

\* lines 47-59: the live object was fetched
ApplyExisting(st, existing, required, writeFails, labelOrder, annotationOrder) ==
    LET merged == EnsureObjectMeta(existing, required, labelOrder, annotationOrder)
        existingCopy == merged.obj
    IN  IF specSame(existingCopy, required) /\ ~merged.modified
        THEN [store |-> st, calls |-> <<>>,
              obj |-> Ptr(existingCopy), changed |-> FALSE, err |-> "nil"]
        ELSE LET res == IssueUpdate(st, ReplaceSpec(existingCopy, required),
                                    writeFails)
             IN  [store |-> res.store, calls |-> res.calls,
                  obj |-> res.obj, changed |-> TRUE, err |-> res.err]

\* ApplyRoute(client, recorder, required): the store afterwards, the calls
\* issued against the store in order, and the three results
ApplyRoute(st, required, getFails, writeFails, labelOrder, annotationOrder) ==
    LET got == Get(st, required.name, getFails)
        get == <<Call("Get", required.name, Nil, got.err)>>
    IN  IF IsNotFound(got.err)
        THEN LET res == IssueCreate(st, CreateArgument(required), writeFails)
             IN  [store |-> res.store, calls |-> get \o res.calls,
                  obj |-> res.obj, changed |-> TRUE, err |-> res.err]
        ELSE IF got.err # "nil"
        THEN [store |-> st, calls |-> get,
              obj |-> Nil, changed |-> FALSE, err |-> got.err]
        ELSE LET res == ApplyExisting(st, Deref(got.obj), required, writeFails,
                                      labelOrder, annotationOrder)
             IN  [res EXCEPT !.calls = get \o @]

\* GetOrCreate dropping the error
GetOrCreateReturn_swallow(route, isNew, err) ==
    [obj |-> route, changed |-> isNew, err |-> "nil"]

\* lines 73-76: what GetOrCreate returns for route, isNew and err
GetOrCreateReturn(route, isNew, err) ==
    IF err # "nil"
    THEN [obj |-> Nil, changed |-> isNew, err |-> err]
    ELSE [obj |-> route, changed |-> isNew, err |-> "nil"]

\* GetOrCreate(ctx, client, required); changed is isNew
GetOrCreate(st, required, getFails, writeFails) ==
    LET got == Get(st, required.name, getFails)
        get == <<Call("Get", required.name, Nil, got.err)>>
    IN  IF IsNotFound(got.err)
        THEN LET res == IssueCreate(st, GetOrCreateArgument(required), writeFails)
                 ret == GetOrCreateReturn(res.obj, TRUE, res.err)
             IN  [store |-> res.store, calls |-> get \o res.calls,
                  obj |-> ret.obj, changed |-> ret.changed, err |-> ret.err]
        ELSE LET ret == GetOrCreateReturn(got.obj, FALSE, got.err)
             IN  [store |-> st, calls |-> get,
                  obj |-> ret.obj, changed |-> ret.changed, err |-> ret.err]

---------------------------------------------------------------------------
(* Status readers *)

\* lines 187-191: the loop over ingress.Conditions, from condition i on,
\* with the value of `admitted` so far
RECURSIVE AdmittedLoop(_, _, _)
AdmittedLoop(conditions, i, admitted) ==
    IF i > Len(conditions) THEN admitted
    ELSE IF conditions[i].type = "Admitted" /\ conditions[i].status = "True"
    THEN AdmittedLoop(conditions, i + 1, TRUE)
    ELSE AdmittedLoop(conditions, i + 1, admitted)

isIngressAdmitted(entry) == AdmittedLoop(entry.conditions, 1, FALSE)

\* lines 156-168: the loop over route.Status.Ingress, from entry i on
RECURSIVE CanonicalHostLoop(_, _)
CanonicalHostLoop(list, i) ==
    IF i > Len(list) THEN ""
    ELSE IF list[i].routerName # defaultIngressController
    THEN CanonicalHostLoop(list, i + 1)
    ELSE IF ~isIngressAdmitted(list[i])
    THEN CanonicalHostLoop(list, i + 1)
    ELSE list[i].host

\* the scan without the router name check: the first admitted entry of any router
RECURSIVE AnyRouterHostLoop(_, _)
AnyRouterHostLoop(list, i) ==
    IF i > Len(list) THEN ""
    ELSE IF ~isIngressAdmitted(list[i])
    THEN AnyRouterHostLoop(list, i + 1)
    ELSE list[i].host

GetCanonicalHost_anyRouter(route) == AnyRouterHostLoop(route.status.ingress, 1)

GetCanonicalHost(route) == CanonicalHostLoop(route.status.ingress, 1)

\* lines 177-182: the loop over route.Status.Ingress, from entry i on
RECURSIVE IsAdmittedLoop(_, _)
IsAdmittedLoop(list, i) ==
    IF i > Len(list) THEN FALSE
    ELSE IF isIngressAdmitted(list[i]) THEN TRUE
    ELSE IsAdmittedLoop(list, i + 1)

IsAdmitted(route) == IsAdmittedLoop(route.status.ingress, 1)

---------------------------------------------------------------------------
(* Inputs of the model *)

\* parent configurations: nil, or a Console with a hostname and a secret name
Hostnames == {"", "console.example.com", "ui.example.com"}
SecretNames == {"", "console-tls"}
Configs ==
    {Nil} \cup {Ptr([name |-> "cluster", uid |-> "uid-1",
                     hostname |-> h, secretName |-> n]) :
                h \in Hostnames, n \in SecretNames}

\* custom certificates: nil or a certificate with its key
TLSConfigs ==
    {Nil, Ptr([Certificate |-> "cert-1", Key |-> "key-1"]),
     Ptr([Certificate |-> "cert-2", Key |-> "key-2"])}

\* label values: the operator's own and others
LabelValues ==
    {OpenShiftConsoleName} \cup {"other" \o ToString(i) : i \in 1..NumOtherValues}

\* all maps from a subset of keys to vals
Maps(keys, vals) == UNION {[S -> vals] : S \in SUBSET keys}

\* desired maps may carry removal markers, whose value is ignored
WithMarkers(maps, key) ==
    maps \cup {Put(m, key \o "-", "") : m \in maps}

LiveLabels == Maps({"app"}, LabelValues)
LiveAnnotations == Maps({"note"}, {"x"})
DesiredLabels == WithMarkers(LiveLabels, "app")
\* desired annotations: none, or the removal marker of the live key
DesiredAnnotations == {EmptyMap, Put(EmptyMap, "note-", "")}

\* the owner reference of the console config
ConsoleOwner ==
    Deref(OwnerRefFrom(Ptr([name |-> "cluster", uid |-> "uid-1",
                            hostname |-> "", secretName |-> ""])))

\* route specs the builders produce for the default route
BuiltSpecs == {DefaultRoute(c).spec : c \in Configs}

\* route specs the store may hold: the built ones, and the same with an
\* empty slice where the builder leaves a nil one
LiveSpecs ==
    BuiltSpecs \cup
    {[sp EXCEPT !.alternateBackends = EmptySlice] :
        sp \in {x \in BuiltSpecs : x.tls.termination = "reencrypt"}}

Routes(labels, annotations, owners, specs) ==
    {[name |-> OpenShiftConsoleName, namespace |-> OpenShiftConsoleNamespace,
      labels |-> l, annotations |-> a, ownerReferences |-> o, spec |-> sp] :
        l \in labels, a \in annotations, o \in owners, sp \in specs}

\* objects the store may hold, and objects a caller may ask for
LiveRoutes ==
    Routes(LiveLabels, LiveAnnotations, {<<>>, <<ConsoleOwner>>}, LiveSpecs)
DesiredRoutes ==
    Routes(DesiredLabels, DesiredAnnotations, {<<ConsoleOwner>>}, BuiltSpecs)

\* ingress status lists
ConditionLists ==
    {<<>>,
     <<[type |-> "Admitted", status |-> "True"]>>,
     <<[type |-> "Admitted", status |-> "False"]>>,
     <<[type |-> "Other", status |-> "True"]>>,
     <<[type |-> "Admitted", status |-> "False"],
       [type |-> "Admitted", status |-> "True"]>>,
     <<[type |-> "Admitted", status |-> "True"],
       [type |-> "Other", status |-> "False"]>>}
IngressEntries ==
    {[routerName |-> r, host |-> h, conditions |-> c] :
        r \in {defaultIngressController, "other"},
        h \in {"a.example.com", "b.example.com"},
        c \in ConditionLists}
IngressLists == UNION {[1..n -> IngressEntries] : n \in 0..MaxIngress}

---------------------------------------------------------------------------
(* State machine of the reconcile operations *)

NoOp ==
    [op |-> "none", required |-> Nil, pre |-> EmptyMap, calls |-> <<>>,
     obj |-> Nil, changed |-> FALSE, err |-> "nil", repeat |-> FALSE]

Record(op, required, pre, res) ==
    [op |-> op, required |-> Ptr(required), pre |-> pre, calls |-> res.calls,
     obj |-> res.obj, changed |-> res.changed, err |-> res.err,
     repeat |-> /\ last.op = op
                /\ last.err = "nil"
                /\ last.required = Ptr(required)]

Idle ==
    /\ ingress = <<>> /\ status = Nil
    /\ cr = Nil /\ tlsConfig = Nil /\ built = Nil

Init ==
    /\ store = EmptyMap
    /\ last = NoOp
    /\ Idle

\* one call of ApplyRoute, with the store answering or failing either call
ApplyRouteCall ==
    \E required \in DesiredRoutes, fault \in {"none", "get", "write"} :
        \E lo \in RangeOrders(required.labels),
           ao \in RangeOrders(required.annotations) :
            LET res == ApplyRoute(store, required, fault = "get",
                                  fault = "write", lo, ao)
            IN  /\ store' = res.store
                /\ last' = Record("ApplyRoute", required, store, res)
                /\ UNCHANGED <<ingress, status, cr, tlsConfig, built>>

\* one call of GetOrCreate
GetOrCreateCall ==
    \E required \in DesiredRoutes, fault \in {"none", "get", "write"} :
        LET res == GetOrCreate(store, required, fault = "get", fault = "write")
        IN  /\ store' = res.store
            /\ last' = Record("GetOrCreate", required, store, res)
            /\ UNCHANGED <<ingress, status, cr, tlsConfig, built>>

\* another client of the store writes the route
ExternalWrite ==
    \E obj \in LiveRoutes :
        /\ store' = Put(store, obj.name, obj)
        /\ last' = NoOp
        /\ UNCHANGED <<ingress, status, cr, tlsConfig, built>>

\* another client of the store deletes the route
ExternalDelete ==
    /\ store # EmptyMap
    /\ store' = EmptyMap
    /\ last' = NoOp
    /\ UNCHANGED <<ingress, status, cr, tlsConfig, built>>

Next == ApplyRouteCall \/ GetOrCreateCall \/ ExternalWrite \/ ExternalDelete

Spec == Init /\ [][Next]_vars

---------------------------------------------------------------------------
(* State machine of the status readers *)

InitStatus ==
    /\ store = EmptyMap /\ last = NoOp
    /\ cr = Nil /\ tlsConfig = Nil /\ built = Nil
    /\ ingress \in IngressLists
    /\ status = Nil

\* the operator reads the route's status
ReadStatus ==
    /\ status = Nil
    /\ status' = Ptr([host |-> GetCanonicalHost([status |-> [ingress |-> ingress]]),
                      admitted |-> IsAdmitted([status |-> [ingress |-> ingress]])])
    /\ UNCHANGED <<store, last, ingress, cr, tlsConfig, built>>

NextStatus == ReadStatus

SpecStatus == InitStatus /\ [][NextStatus]_vars

---------------------------------------------------------------------------
(* State machine of the builders *)

InitBuild ==
    /\ store = EmptyMap /\ last = NoOp
    /\ ingress = <<>> /\ status = Nil
    /\ cr \in Configs
    /\ tlsConfig \in TLSConfigs
    /\ built = Nil

\* DefaultRoute(cr)
BuildDefault ==
    /\ built' = Ptr([by |-> "DefaultRoute", cr |-> cr, tlsConfig |-> Nil,
                     route |-> DefaultRoute(cr)])
    /\ UNCHANGED <<store, last, ingress, status, cr, tlsConfig>>

\* CustomRoute(cr, tlsConfig); the function dereferences cr
BuildCustom ==
    /\ ~IsNil(cr)
    /\ built' = Ptr([by |-> "CustomRoute", cr |-> cr, tlsConfig |-> tlsConfig,
                     route |-> CustomRoute(cr, tlsConfig)])
    /\ UNCHANGED <<store, last, ingress, status, cr, tlsConfig>>

\* the cluster admin edits the console config, or the secret's content changes
SetConfig ==
    /\ \E c \in Configs, t \in TLSConfigs :
          /\ <<c, t>> # <<cr, tlsConfig>>
          /\ cr' = c
          /\ tlsConfig' = t
    /\ UNCHANGED <<store, last, ingress, status, built>>

NextBuild == BuildDefault \/ BuildCustom \/ SetConfig

SpecBuild == InitBuild /\ [][NextBuild]_vars

---------------------------------------------------------------------------
(* Properties of the reconcile operations, stated on the last operation *)

Applied == last.op = "ApplyRoute"
Ensured == last.op = "GetOrCreate"
Required == Deref(last.required)
\* the Get answered with the live object / with NotFound / with another error
Fetched == last.calls[1].err = "nil"
Missing == last.calls[1].err = "NotFound"
GetFailed == last.calls[1].err \notin {"nil", "NotFound"}
\* the object under the required key before and after the operation
Live == last.pre[Required.name]
Stored == store[Required.name]
Verbs == [i \in DOMAIN last.calls |-> last.calls[i].verb]
Wrote == Len(last.calls) >= 2
Written == Deref(last.calls[2].obj)

IsMarker(k) == \E b \in BaseKeys : k = b \o "-"
MarkerOf(k) == k \o "-"
StrayKeys(live, desired) == {k \in DOMAIN live : k \notin DOMAIN desired}
UnmarkedStrayKeys(live, desired) ==
    {k \in StrayKeys(live, desired) : MarkerOf(k) \notin DOMAIN desired}
Carries(m, live, keys) == \A k \in keys : k \in DOMAIN m /\ m[k] = live[k]
WithoutMarkers(m) == [k \in {x \in DOMAIN m : ~IsMarker(x)} |-> m[k]]

\* the map holds every desired key with the desired value
MapContains(m, desired) == \A k \in DOMAIN desired : k \in DOMAIN m /\ m[k] = desired[k]
\* the list holds every desired owner reference
OwnersContain(refs, desired) ==
    \A i \in DOMAIN desired : \E j \in DOMAIN refs : refs[j] = desired[i]
MetaContains(live, desired) ==
    /\ MapContains(live.labels, desired.labels)
    /\ MapContains(live.annotations, desired.annotations)
    /\ OwnersContain(live.ownerReferences, desired.ownerReferences)
\* a desired map asks for a change of the live map: a key to set, or a marked key to remove
MapAsksChange(m, desired) ==
    \E k \in DOMAIN desired :
        IF IsMarker(k) THEN \E b \in DOMAIN m : k = MarkerOf(b)
        ELSE k \notin DOMAIN m \/ m[k] # desired[k]
MetaAsksChange(live, desired) ==
    \/ MapAsksChange(live.labels, desired.labels)
    \/ MapAsksChange(live.annotations, desired.annotations)
    \/ ~OwnersContain(live.ownerReferences, desired.ownerReferences)
SpecsDiffer(a, b) ==
    \/ a.host # b.host \/ a.to # b.to \/ a.port # b.port \/ a.tls # b.tls
    \/ a.wildcardPolicy # b.wildcardPolicy
    \/ a.alternateBackends.items # b.alternateBackends.items
\* a map names a key both to set and, by its marker, to remove
Contradictory(m) == \E k \in DOMAIN m : MarkerOf(k) \in DOMAIN m

\* C1: a successful ApplyRoute that directly follows a successful ApplyRoute
\* of the same desired route, with no other write between, returns changed=false
C1_SecondApplyUnchanged ==
    (Applied /\ last.repeat /\ last.err = "nil") => ~last.changed

\* C1, for desired routes that do not name a key both to set and to remove:
\* the second ApplyRoute returns changed=false
C1_SecondApplyUnchangedConsistent ==
    (/\ Applied /\ last.repeat /\ last.err = "nil"
     /\ ~Contradictory(Required.labels)
     /\ ~Contradictory(Required.annotations)) => ~last.changed

\* C2 as claimed: with no route under the desired key, ApplyRoute issues one
\* Create and no Update, returns changed=true, and the stored object equals
\* the desired object
C2_CreatesDesired ==
    (Applied /\ Missing) =>
        /\ Verbs = <<"Get", "Create">>
        /\ last.changed
        /\ last.err = "nil" => Stored = Required

\* C2 amended: with no route under the desired key, ApplyRoute issues one
\* Create and no Update, returns changed=true, and the object handed to Create
\* and stored is the desired object without its label and annotation keys
\* that end in "-"
C2_CreatesCleanedDesired ==
    (Applied /\ Missing) =>
        LET cleaned == [Required EXCEPT !.labels = WithoutMarkers(@),
                                        !.annotations = WithoutMarkers(@)]
        IN  /\ Verbs = <<"Get", "Create">>
            /\ last.changed
            /\ Written = cleaned
            /\ last.err = "nil" => Stored = cleaned /\ last.obj = Ptr(cleaned)

C2_Witness ==
    /\ Applied /\ Missing /\ last.err = "nil"
    /\ "app-" \in DOMAIN Required.labels
    /\ Stored # Required

\* C3: when the fetched live route's spec differs from the desired spec, or
\* the desired metadata asks for a change, ApplyRoute issues exactly one
\* Update carrying the whole desired spec and returns changed=true; after a
\* successful Update the stored spec is the desired spec
C3_UpdateReplacesSpec ==
    (/\ Applied /\ Fetched
     /\ \/ SpecsDiffer(Live.spec, Required.spec)
        \/ MetaAsksChange(Live, Required)) =>
        /\ Verbs = <<"Get", "Update">>
        /\ Written.spec = Required.spec
        /\ last.changed
        /\ last.err = "nil" => Stored.spec = Required.spec

C3_Witness ==
    /\ Applied /\ Fetched /\ last.err = "nil"
    /\ SpecsDiffer(Live.spec, Required.spec)
    /\ ~MetaAsksChange(Live, Required)
    /\ Stored.spec = Required.spec

\* C4: when the fetched live route's spec is semantically equal to the
\* desired spec and its metadata holds every desired label, annotation and
\* owner reference, ApplyRoute returns changed=false and no error, issues no
\* write and leaves the store as it was
C4_NoChangeWhenInSync ==
    (/\ Applied /\ Fetched
     /\ ~SpecsDiffer(Live.spec, Required.spec)
     /\ MetaContains(Live, Required)) =>
        /\ ~last.changed
        /\ last.err = "nil"
        /\ Verbs = <<"Get">>
        /\ store = last.pre
        /\ last.obj = Ptr(Live)

C4_Witness ==
    /\ Applied /\ Fetched /\ ~last.changed
    /\ MetaContains(Live, Required)
    /\ Live.spec # Required.spec
    /\ DOMAIN Required.labels # {}

C6_StoreErrorsReturned ==
    (Applied \/ Ensured) =>
        /\ GetFailed => /\ last.err = last.calls[1].err
                        /\ IsNil(last.obj)
                        /\ ~last.changed
                        /\ Verbs = <<"Get">>
        /\ (Wrote /\ last.calls[2].err # "nil") => last.err = last.calls[2].err

C6_Witness ==
    \/ /\ Ensured /\ Wrote /\ last.calls[2].err = "Invalid" /\ last.err = "Invalid"
    \/ /\ Applied /\ GetFailed /\ last.err = GetFault /\ Required.name \in DOMAIN store

\* C7: one call of ApplyRoute or GetOrCreate issues exactly one Get, first,
\* and after it at most one write, a Create or an Update
C7_OneReadOneWrite ==
    (Applied \/ Ensured) =>
        /\ Len(last.calls) \in {1, 2}
        /\ last.calls[1].verb = "Get"
        /\ Wrote => last.calls[2].verb \in {"Create", "Update"}

C7_Witness ==
    /\ Applied /\ Wrote /\ last.calls[2].verb = "Update"
    /\ last.calls[2].err = WriteFault /\ last.err = WriteFault

\* C8: GetOrCreate returns a route it fetched as it is, with isNew=false and
\* the store untouched, whatever the required object says; it never issues an
\* Update, and issues Create, with the required object as given, only when the
\* Get reported NotFound
C8_GetOrCreateOnly ==
    Ensured =>
        /\ Fetched => /\ last.obj = Ptr(Live)
                      /\ ~last.changed
                      /\ last.err = "nil"
                      /\ store = last.pre
                      /\ Verbs = <<"Get">>
        /\ \A i \in DOMAIN last.calls : last.calls[i].verb # "Update"
        /\ Wrote => /\ Missing
                    /\ last.calls[2].verb = "Create"
                    /\ Written = Required

C8_Witness ==
    /\ Ensured /\ Fetched /\ ~last.changed
    /\ SpecsDiffer(Live.spec, Required.spec)
    /\ MetaAsksChange(Live, Required)
    /\ store = last.pre

---------------------------------------------------------------------------
(* Properties of the status readers and the builders *)

Admits(entry) ==
    \E i \in DOMAIN entry.conditions :
        entry.conditions[i] = [type |-> "Admitted", status |-> "True"]
Qualifying ==
    {i \in DOMAIN ingress :
        ingress[i].routerName = "default" /\ Admits(ingress[i])}

\* C9: GetCanonicalHost returns the host of the first entry, in list order,
\* of router "default" that carries an Admitted condition with status "True",
\* and "" when there is none, whatever other routers report; IsAdmitted is
\* true when any entry is admitted
C9_CanonicalHostFirstDefaultAdmitted ==
    ~IsNil(status) =>
        /\ Qualifying = {} => Deref(status).host = ""
        /\ Qualifying # {} =>
             \E i \in Qualifying :
                /\ \A j \in Qualifying : i <= j
                /\ Deref(status).host = ingress[i].host
        /\ Deref(status).admitted <=> \E i \in DOMAIN ingress : Admits(ingress[i])

C9_Witness ==
    /\ ~IsNil(status)
    /\ Deref(status).admitted
    /\ Deref(status).host = ""
    /\ Len(ingress) = 2
    /\ \A i \in DOMAIN ingress :
          ingress[i].routerName = "other" /\ ingress[i].host # ""
    /\ Admits(ingress[2])

\* C10: DefaultRoute targets the redirect service on the redirect port with
\* edge termination when the config has a non-empty hostname, and the console
\* service on the console port with re-encrypt termination when the hostname
\* is empty or the config is nil; it produces no other combination
C10_DefaultRouteTarget ==
    (~IsNil(built) /\ Deref(built).by = "DefaultRoute") =>
        LET config == Deref(built).cr
            spec == Deref(built).route.spec
            target == <<spec.to.name, spec.port.targetPort, spec.tls.termination>>
            hasHost == ~IsNil(config) /\ Deref(config).hostname # ""
        IN  /\ hasHost => target = <<"console-redirect", "custom-route-redirect", "edge">>
            /\ ~hasHost => target = <<"console", "https", "reencrypt">>

C10_Witness ==
    /\ ~IsNil(built) /\ Deref(built).by = "DefaultRoute"
    /\ ~IsNil(Deref(built).cr)
    /\ Deref(Deref(built).cr).hostname = "console.example.com"
    /\ Deref(Deref(built).cr).secretName = ""
    /\ Deref(built).route.spec.tls.termination = "edge"

====
